---- MODULE Spec2Model ----
(***************************************************************************)
(* Huffman coding (src/src/huffman.py): construction of the coding tree    *)
(* with heapq, derivation of the letter -> bit-string table, encode, and   *)
(* the bit-by-bit decoder.                                                 *)
(*                                                                         *)
(* Python strings are modelled as sequences of one-character strings;      *)
(* lists as sequences; dicts as functions on their key set.  heapq's       *)
(* algorithms are those of the standard library (Lib/heapq.py), positions  *)
(* being 0-based as there.                                                 *)
(***************************************************************************)
EXTENDS Integers, Sequences, FiniteSets, TLC

\* ------------------------------------------------------------------ bounds

\* Longest enumerated training string.
MaxLen == 3
\* Longest enumerated raw bit string handed to decode.
MaxBits == 3
\* Longest enumerated string handed to encode (besides the training string).
MaxY == 2
\* Longest training string of the two concurrently constructed Encodings.
MaxConcLen == 2

\* The alphabet the inputs are drawn from.
Symbols == {"a", "b", "c", "d"}
\* Elements of a bit string: the two binary digits and one other character.
Digits == {"0", "1", "2"}

Strings(S, n) == UNION {[1..k -> S] : k \in 0..n}

\* 'aabacabaaa', the input of the doctests.
Example == <<"a", "a", "b", "a", "c", "a", "b", "a", "a", "a">>
\* Further training inputs beyond the enumerated ones.
Examples == {Example,
             <<"a", "a", "a", "a">>,
             <<"a", "b", "c", "d">>,
             <<"d", "c", "b", "a">>,
             <<"d", "c", "c", "b", "b", "a", "a", "a">>}
Inputs == Strings(Symbols, MaxLen) \cup Examples

\* ------------------------------------------------------------- data types

NoTree == [kind |-> "None"]
Leaf(letter, count) == [kind |-> "Leaf", letter |-> letter, count |-> count]
Node(count, left, right) ==
    [kind |-> "Node", count |-> count, left |-> left, right |-> right]
IsLeaf(t) == t.kind = "Leaf"

\* CountCmp.__lt__
Lt(a, b) == a.count < b.count

\* ------------------------------------------------------------ Counter(x)

\* The distinct letters of x in order of first occurrence (dict order).
DistinctLetters(x) ==
    LET F[i \in 0..Len(x)] ==
          IF i = 0 THEN <<>>
          ELSE IF \E j \in 1..(i - 1) : x[j] = x[i] THEN F[i - 1]
          ELSE Append(F[i - 1], x[i])
    IN F[Len(x)]
Occurrences(x, a) == Cardinality({i \in 1..Len(x) : x[i] = a})
LetterSet(x) == {x[i] : i \in 1..Len(x)}

\* [Leaf(a, count) for a, count in Counter(x).items()]
InitialLeaves(x) ==
    LET d == DistinctLetters(x)
    IN [i \in 1..Len(d) |-> Leaf(d[i], Occurrences(x, d[i]))]

\* ------------------------------------------------------------------ heapq

At(heap, pos) == heap[pos + 1]
Put(heap, pos, item) == [heap EXCEPT ![pos + 1] = item]

\* heapq._siftdown: move newitem up towards startpos while it is smaller
\* than its parent.
RECURSIVE SiftdownLoop(_, _, _, _)
SiftdownLoop(heap, startpos, pos, newitem) ==
    IF pos > startpos
    THEN LET parentpos == (pos - 1) \div 2
             parent == At(heap, parentpos)
         IN IF Lt(newitem, parent)
            THEN SiftdownLoop(Put(heap, pos, parent), startpos, parentpos, newitem)
            ELSE Put(heap, pos, newitem)
    ELSE Put(heap, pos, newitem)
Siftdown(heap, startpos, pos) == SiftdownLoop(heap, startpos, pos, At(heap, pos))

\* Mutation: the left child is bubbled up whatever the right one holds.
SmallerChildLeft(heap, childpos) == childpos

\* The child heapq._siftup bubbles up: the right one unless the left one is
\* strictly smaller.
SmallerChild(heap, childpos) ==
    LET rightpos == childpos + 1
    IN IF rightpos < Len(heap) /\ ~Lt(At(heap, childpos), At(heap, rightpos))
       THEN rightpos ELSE childpos

\* heapq._siftup: bubble the smaller child up until a leaf is hit, then sift
\* newitem down from there.
RECURSIVE SiftupLoop(_, _, _, _)
SiftupLoop(heap, startpos, pos, newitem) ==
    IF 2 * pos + 1 < Len(heap)
    THEN LET childpos == SmallerChild(heap, 2 * pos + 1)
         IN SiftupLoop(Put(heap, pos, At(heap, childpos)), startpos, childpos, newitem)
    ELSE Siftdown(Put(heap, pos, newitem), startpos, pos)
Siftup(heap, pos) == SiftupLoop(heap, pos, pos, At(heap, pos))

\* heapq.heapify: for i in reversed(range(n // 2)): _siftup(x, i)
RECURSIVE HeapifyLoop(_, _)
HeapifyLoop(heap, i) ==
    IF i < 0 THEN heap ELSE HeapifyLoop(Siftup(heap, i), i - 1)
Heapify(heap) == HeapifyLoop(heap, (Len(heap) \div 2) - 1)

\* heapq.heappop on a non-empty heap: the item returned and the heap left.
Heappop(heap) ==
    LET lastelt == heap[Len(heap)]
        rest == SubSeq(heap, 1, Len(heap) - 1)
    IN IF rest # <<>>
       THEN [item |-> rest[1], heap |-> Siftup(Put(rest, 0, lastelt), 0)]
       ELSE [item |-> lastelt, heap |-> rest]

\* heapq.heappush
Heappush(heap, item) == Siftdown(Append(heap, item), 0, Len(heap))

\* Mutation: the new node counts its left child twice.
MergeCountLeft(l, r) == l.count + l.count

\* One iteration of the while loop of encoding(): the locals and the heap
\* after it.
MergeCount(l, r) == l.count + r.count
MergeStep(heap) ==
    LET p1 == Heappop(heap)
        p2 == Heappop(p1.heap)
    IN [left |-> p1.item, right |-> p2.item,
        heap |-> Heappush(p2.heap, Node(MergeCount(p1.item, p2.item), p1.item, p2.item))]

\* ------------------------------------------------- build_encoding_table

EmptyTable == [s \in {} |-> <<>>]
\* table[key] = value
TableSet(table, key, value) ==
    [s \in (DOMAIN table) \cup {key} |-> IF s = key THEN value ELSE table[s]]
\* Mutation: the digit appended for a subtree is never removed.
ListPopNothing(bits) == bits
\* bits.pop()
ListPop(bits) == SubSeq(bits, 1, Len(bits) - 1)

\* The recursive traversal, run without interruption: the accumulator list
\* `bits` is mutated and restored, `table` is filled.  Returns both.
RECURSIVE BuildEncodingTable(_, _, _)
BuildEncodingTable(tree, bits, table) ==
    IF IsLeaf(tree)
    THEN [bits |-> bits, table |-> TableSet(table, tree.letter, bits)]
    ELSE LET l == BuildEncodingTable(tree.left, Append(bits, "0"), table)
             r == BuildEncodingTable(tree.right, Append(ListPop(l.bits), "1"), l.table)
         IN [bits |-> ListPop(r.bits), table |-> r.table]

\* The whole of encoding(x) for a non-empty x: heapify, merge until one tree
\* is left, pop it.
RECURSIVE MergeLoop(_)
MergeLoop(heap) ==
    IF Len(heap) > 1 THEN MergeLoop(MergeStep(heap).heap) ELSE Heappop(heap).item
HuffmanTree(x) == MergeLoop(Heapify(InitialLeaves(x)))

\* ------------------------------------------------------- Encoding.encode

Value(v) == [kind |-> "value", value |-> v, err |-> ""]
Raise(e) == [kind |-> "raise", value |-> <<>>, err |-> e]
NoRet == [kind |-> "none", value |-> <<>>, err |-> ""]

\* Mutation: a missing letter encodes as the empty string (dict.get).
LookupOrEmpty(table, letter) ==
    [found |-> TRUE, bits |-> IF letter \in DOMAIN table THEN table[letter] ELSE <<>>]

\* self.table[letter]
Lookup(table, letter) ==
    IF letter \in DOMAIN table
    THEN [found |-> TRUE, bits |-> table[letter]]
    ELSE [found |-> FALSE, bits |-> <<>>]

\* "".join(self.table[letter] for letter in x): the generator is consumed
\* letter by letter; a KeyError leaves join without a result.
RECURSIVE EncodeFrom(_, _, _, _)
EncodeFrom(table, y, i, acc) ==
    IF i > Len(y) THEN Value(acc)
    ELSE LET r == Lookup(table, y[i])
         IN IF r.found THEN EncodeFrom(table, y, i + 1, acc \o r.bits)
            ELSE Raise("KeyError")
Encode(table, y) == EncodeFrom(table, y, 1, <<>>)

\* ---------------------------------------------------------------- decode

\* if b == '0': node = node.left / if b == '1': node = node.right.
\* A Leaf has neither attribute; any other b leaves node alone.
Move(node, b) ==
    IF b \in {"0", "1"}
    THEN IF IsLeaf(node) THEN [ok |-> FALSE, node |-> node]
         ELSE [ok |-> TRUE, node |-> IF b = "0" THEN node.left ELSE node.right]
    ELSE [ok |-> TRUE, node |-> node]

\* Mutation: the current node is not reset to the root after a leaf.
EmitNoReset(root, n, out) ==
    IF IsLeaf(n) THEN [node |-> n, decoding |-> Append(out, n.letter)]
    ELSE [node |-> n, decoding |-> out]

\* if isinstance(node, Leaf): decoding.append(node.letter); node = enc.tree
Emit(root, n, out) ==
    IF IsLeaf(n) THEN [node |-> root, decoding |-> Append(out, n.letter)]
    ELSE [node |-> n, decoding |-> out]

\* Mutation: the assert is left out.
AtRootUnchecked(root, n) == TRUE

\* assert enc.tree is node.  The tree holds no cycles and every count is
\* positive, so no proper subtree equals the whole tree: identity of the
\* objects is equality of the values.
AtRoot(root, n) == n = root

DropLast(s) == SubSeq(s, 1, Len(s) - 1)

\* ------------------------------------------------------------------ state

VARIABLES
    x,            \* the training string of the Encoding
    pc,           \* where the program is: "start", "loop", "tree", "failed",
                  \* "ready" (Encoding constructed), "decoding", "idle"
    heap,         \* encoding(): the heap
    left, right,  \* encoding(): the two trees popped by the last iteration
    merges,       \* encoding(): iterations of the while loop so far
    tree, table,  \* Encoding.tree, Encoding.table
    defaultBits,  \* the list object that is build_encoding_table's default `bits`
    call,         \* the current or last call of encode/decode and its argument
    cursor,       \* decode(): elements of x consumed from the iterator
    node,         \* decode(): the current node
    decoding,     \* decode(): the letters emitted
    ret,          \* what the last call returned or raised
    cx, cpc, ctree, cstack, ctable
                  \* two concurrent Encoding constructions: input, position,
                  \* tree, call stack of build_encoding_table, table

vars == <<x, pc, heap, left, right, merges, tree, table, defaultBits, call,
          cursor, node, decoding, ret, cx, cpc, ctree, cstack, ctable>>
buildVars == <<heap, left, right, merges, tree, table, defaultBits>>
decodeVars == <<cursor, node, decoding>>
concVars == <<cx, cpc, ctree, cstack, ctable>>

NoCall == [op |-> "none", arg |-> <<>>]
Procs == {1, 2}

\* -------------------------------------------- one Encoding, used in turn

Init ==
    /\ x \in Inputs
    /\ pc = "start"
    /\ heap = <<>> /\ left = NoTree /\ right = NoTree /\ merges = 0
    /\ tree = NoTree /\ table = EmptyTable
    /\ defaultBits = <<>>
    /\ call = NoCall /\ cursor = 0 /\ node = NoTree /\ decoding = <<>>
    /\ ret = NoRet
    /\ cx = <<>> /\ cpc = <<>> /\ ctree = <<>> /\ cstack = <<>> /\ ctable = <<>>

\* encoding(): build the list of leaves and heapify it.
MakeHeap ==
    /\ pc = "start"
    /\ heap' = Heapify(InitialLeaves(x))
    /\ pc' = "loop"
    /\ UNCHANGED <<x, left, right, merges, tree, table, defaultBits, call,
                   decodeVars, ret, concVars>>

\* encoding(): one iteration of the while loop.
Merge ==
    /\ pc = "loop"
    /\ Len(heap) > 1
    /\ LET m == MergeStep(heap)
       IN /\ left' = m.left
          /\ right' = m.right
          /\ heap' = m.heap
    /\ merges' = merges + 1
    /\ UNCHANGED <<x, pc, tree, table, defaultBits, call, decodeVars, ret, concVars>>

\* encoding(): return hq.heappop(heap); self.tree = ...  An empty heap makes
\* heappop raise IndexError and no Encoding comes to exist.
ReturnTree ==
    /\ pc = "loop"
    /\ Len(heap) <= 1
    /\ IF heap = <<>>
       THEN /\ pc' = "failed"
            /\ ret' = Raise("IndexError")
            /\ UNCHANGED <<heap, tree>>
       ELSE /\ tree' = Heappop(heap).item
            /\ heap' = Heappop(heap).heap
            /\ pc' = "tree"
            /\ ret' = ret
    /\ UNCHANGED <<x, left, right, merges, table, defaultBits, call, decodeVars, concVars>>

\* self.table = build_encoding_table(self.tree)
BuildTable ==
    /\ pc = "tree"
    /\ LET r == BuildEncodingTable(tree, defaultBits, EmptyTable)
       IN /\ table' = r.table
          /\ defaultBits' = r.bits
    /\ pc' = "ready"
    /\ UNCHANGED <<x, heap, left, right, merges, tree, call, decodeVars, ret, concVars>>

\* Encoding.encode(y)
EncodeCall(y) ==
    /\ pc = "ready"
    /\ call' = [op |-> "encode", arg |-> y]
    /\ ret' = Encode(table, y)
    /\ cursor' = 0 /\ node' = NoTree /\ decoding' = <<>>
    /\ UNCHANGED <<x, pc, buildVars, concVars>>

\* The bit strings decode is called with: the enumerated ones, what encode
\* just returned, and that with its last bit removed.
DecodeInputs ==
    Strings(Digits, MaxBits)
      \cup (IF call.op = "encode" /\ ret.kind = "value"
            THEN {ret.value, DropLast(ret.value)} ELSE {})

\* Encoding.decode(b): bits = iter(x); node = enc.tree; decoding = []
DecodeCall(b) ==
    /\ pc = "ready"
    /\ call' = [op |-> "decode", arg |-> b]
    /\ cursor' = 0
    /\ node' = tree
    /\ decoding' = <<>>
    /\ ret' = NoRet
    /\ pc' = "decoding"
    /\ UNCHANGED <<x, buildVars, concVars>>

\* decode(): one iteration of the while loop, next(bits) giving an element.
DecodeStep ==
    /\ pc = "decoding"
    /\ cursor < Len(call.arg)
    /\ LET b == call.arg[cursor + 1]
           m == Move(node, b)
           e == Emit(tree, m.node, decoding)
       IN IF m.ok
          THEN /\ node' = e.node
               /\ decoding' = e.decoding
               /\ UNCHANGED <<pc, ret>>
          ELSE /\ ret' = Raise("AttributeError")
               /\ pc' = "ready"
               /\ UNCHANGED <<node, decoding>>
    /\ cursor' = cursor + 1
    /\ UNCHANGED <<x, buildVars, call, concVars>>

\* decode(): next(bits) raises StopIteration; the assert, then the return.
DecodeStop ==
    /\ pc = "decoding"
    /\ cursor = Len(call.arg)
    /\ ret' = IF AtRoot(tree, node) THEN Value(decoding) ELSE Raise("AssertionError")
    /\ pc' = "ready"
    /\ UNCHANGED <<x, buildVars, call, decodeVars, concVars>>

EncodeInputs == Strings(Symbols, MaxY) \cup {x}

Next ==
    \/ MakeHeap
    \/ Merge
    \/ ReturnTree
    \/ BuildTable
    \/ \E y \in EncodeInputs : EncodeCall(y)
    \/ \E b \in DecodeInputs : DecodeCall(b)
    \/ DecodeStep
    \/ DecodeStop

Spec == Init /\ [][Next]_vars

\* ----------------------- two Encodings constructed by concurrent threads

\* A frame of build_encoding_table: its `tree` argument and the statement it
\* is at.  Every frame's `bits` is the one default list, its `table` the
\* dict the outermost call created.
Frame(t, at) == [tree |-> t, at |-> at]
Top(st) == st[Len(st)]
SetTop(st, at) == [st EXCEPT ![Len(st)] = Frame(st[Len(st)].tree, at)]
Pop(st) == SubSeq(st, 1, Len(st) - 1)

ConcInputs == Strings(Symbols, MaxConcLen) \ {<<>>}

ConcInit ==
    /\ cx \in [Procs -> ConcInputs]
    /\ cpc = [p \in Procs |-> "new"]
    /\ ctree = [p \in Procs |-> NoTree]
    /\ cstack = [p \in Procs |-> <<>>]
    /\ ctable = [p \in Procs |-> EmptyTable]
    /\ defaultBits = <<>>
    /\ x = <<>> /\ pc = "idle"
    /\ heap = <<>> /\ left = NoTree /\ right = NoTree /\ merges = 0
    /\ tree = NoTree /\ table = EmptyTable
    /\ call = NoCall /\ cursor = 0 /\ node = NoTree /\ decoding = <<>>
    /\ ret = NoRet

mainVars == <<x, pc, heap, left, right, merges, tree, table, call, cursor,
              node, decoding, ret>>

\* Encoding.__init__: self.tree = encoding(x), which works on locals only;
\* then the call build_encoding_table(self.tree) with table = {}.
ConcTree(p) ==
    /\ cpc[p] = "new"
    /\ ctree' = [ctree EXCEPT ![p] = HuffmanTree(cx[p])]
    /\ cstack' = [cstack EXCEPT ![p] = <<Frame(HuffmanTree(cx[p]), "enter")>>]
    /\ ctable' = [ctable EXCEPT ![p] = EmptyTable]
    /\ cpc' = [cpc EXCEPT ![p] = "table"]
    /\ UNCHANGED <<cx, defaultBits, mainVars>>

\* The frame on top of p's stack is at statement `at`.
ConcAt(p, at) == cpc[p] = "table" /\ cstack[p] # <<>> /\ Top(cstack[p]).at = at

\* A frame returns; the outermost one assigns self.table.
ConcReturn(p) ==
    /\ cstack' = [cstack EXCEPT ![p] = Pop(cstack[p])]
    /\ cpc' = [cpc EXCEPT ![p] = IF Len(cstack[p]) = 1 THEN "done" ELSE "table"]

\* if isinstance(tree, Leaf): table[tree.letter] = ''.join(bits); return table
ConcLeaf(p) ==
    /\ ConcAt(p, "enter")
    /\ IsLeaf(Top(cstack[p]).tree)
    /\ ctable' = [ctable EXCEPT ![p] = TableSet(ctable[p], Top(cstack[p]).tree.letter, defaultBits)]
    /\ ConcReturn(p)
    /\ UNCHANGED <<cx, ctree, defaultBits, mainVars>>

\* else: bits.append('0')
ConcAppend0(p) ==
    /\ ConcAt(p, "enter")
    /\ ~IsLeaf(Top(cstack[p]).tree)
    /\ defaultBits' = Append(defaultBits, "0")
    /\ cstack' = [cstack EXCEPT ![p] = SetTop(cstack[p], "callLeft")]
    /\ UNCHANGED <<cx, cpc, ctree, ctable, mainVars>>

\* build_encoding_table(tree.left, bits, table)
ConcCallLeft(p) ==
    /\ ConcAt(p, "callLeft")
    /\ cstack' = [cstack EXCEPT ![p] =
                    Append(SetTop(cstack[p], "pop0"), Frame(Top(cstack[p]).tree.left, "enter"))]
    /\ UNCHANGED <<cx, cpc, ctree, ctable, defaultBits, mainVars>>

\* bits.pop() after the left subtree
ConcPop0(p) ==
    /\ ConcAt(p, "pop0")
    /\ defaultBits' = ListPop(defaultBits)
    /\ cstack' = [cstack EXCEPT ![p] = SetTop(cstack[p], "append1")]
    /\ UNCHANGED <<cx, cpc, ctree, ctable, mainVars>>

\* bits.append('1')
ConcAppend1(p) ==
    /\ ConcAt(p, "append1")
    /\ defaultBits' = Append(defaultBits, "1")
    /\ cstack' = [cstack EXCEPT ![p] = SetTop(cstack[p], "callRight")]
    /\ UNCHANGED <<cx, cpc, ctree, ctable, mainVars>>

\* build_encoding_table(tree.right, bits, table)
ConcCallRight(p) ==
    /\ ConcAt(p, "callRight")
    /\ cstack' = [cstack EXCEPT ![p] =
                    Append(SetTop(cstack[p], "pop1"), Frame(Top(cstack[p]).tree.right, "enter"))]
    /\ UNCHANGED <<cx, cpc, ctree, ctable, defaultBits, mainVars>>

\* bits.pop() after the right subtree; return table
ConcPop1(p) ==
    /\ ConcAt(p, "pop1")
    /\ defaultBits' = ListPop(defaultBits)
    /\ ConcReturn(p)
    /\ UNCHANGED <<cx, ctree, ctable, mainVars>>

ConcNext ==
    \E p \in Procs :
        \/ ConcTree(p)
        \/ ConcLeaf(p)
        \/ ConcAppend0(p)
        \/ ConcCallLeft(p)
        \/ ConcPop0(p)
        \/ ConcAppend1(p)
        \/ ConcCallRight(p)
        \/ ConcPop1(p)

\* The threads are scheduled by the interpreter, which may switch between
\* any two statements.
SpecConc == ConcInit /\ [][ConcNext]_vars

\* ------------------------------------------------------------ properties

IsPrefix(a, b) == Len(a) <= Len(b) /\ SubSeq(b, 1, Len(a)) = a
Binary(b) == \A i \in 1..Len(b) : b[i] \in {"0", "1"}
Alphabet == LetterSet(x)

\* The subtree a path of '0' (left) and '1' (right) leads to; NoTree when
\* the path leaves the tree.
RECURSIVE Follow(_, _)
Follow(t, path) ==
    IF path = <<>> THEN t
    ELSE IF t.kind # "Node" THEN NoTree
    ELSE Follow(IF Head(path) = "0" THEN t.left ELSE t.right, Tail(path))

\* The letters of the leaves, left to right.
RECURSIVE LeafLetters(_)
LeafLetters(t) ==
    IF IsLeaf(t) THEN <<t.letter>> ELSE LeafLetters(t.left) \o LeafLetters(t.right)
RECURSIVE InternalNodes(_)
InternalNodes(t) ==
    IF IsLeaf(t) THEN 0 ELSE 1 + InternalNodes(t.left) + InternalNodes(t.right)
\* Every leaf carries its letter's number of occurrences in s, every inner
\* node the sum of its children's counts.
RECURSIVE Counted(_, _)
Counted(t, s) ==
    IF IsLeaf(t) THEN t.count = Occurrences(s, t.letter)
    ELSE /\ t.count = t.left.count + t.right.count
         /\ Counted(t.left, s)
         /\ Counted(t.right, s)

Constructed == pc \in {"ready", "decoding"}
\* A call of decode has ended (returned or raised).
Decoded == pc = "ready" /\ call.op = "decode"
Encoded == pc = "ready" /\ call.op = "encode"

\* C1: for every non-empty training string x, decode(encode(x)) with the
\* Encoding built from x returns x.
C1_RoundTrip ==
    (Decoded /\ Encode(table, x).kind = "value" /\ call.arg = Encode(table, x).value)
        => ret = Value(x)

\* C2: on a bit string of 0/1 digits, decode that runs out of input with the
\* current node not the root raises and returns nothing; it returns a
\* result only with the input exhausted and the current node at the root.
C2_TruncatedRaises ==
    (Decoded /\ Binary(call.arg)) =>
        /\ (cursor = Len(call.arg) /\ node # tree) => ret = Raise("AssertionError")
        /\ ret.kind = "value" => (cursor = Len(call.arg) /\ node = tree)
C2_Witness ==
    /\ Decoded /\ Binary(call.arg)
    /\ cursor = Len(call.arg) /\ node # tree
    /\ ret.kind = "raise"

\* decode was called with encode(x) less its last bit, x having at least two
\* distinct letters.
OneBitShort ==
    /\ Decoded
    /\ Cardinality(Alphabet) >= 2
    /\ call.arg = DropLast(Encode(table, x).value)

\* C3 (as stated): decoding encode(x) less its last bit always raises.
C3_OneBitShortRaises == OneBitShort => ret.kind = "raise"

\* C3 (amended): decoding encode(x) less its last bit raises when the
\* codeword of the last letter of x has two or more bits, and returns x
\* less its last letter when that codeword is a single bit.
C3_OneBitShortAmended ==
    OneBitShort =>
        LET last == table[x[Len(x)]]
        IN /\ Len(last) >= 2 => ret = Raise("AssertionError")
           /\ Len(last) = 1 => ret = Value(DropLast(x))
C3_Witness == OneBitShort /\ ret = Raise("AssertionError")

\* C4: decode of a bit string holding an element other than '0' and '1'
\* raises and never returns a string.
C4_MalformedRaises == (Decoded /\ ~Binary(call.arg)) => ret.kind = "raise"

\* C5: every codeword of every table has at least one bit, the one of a
\* single-letter alphabet included.
C5_NonEmptyCodewords ==
    Constructed => \A s \in DOMAIN table : Len(table[s]) >= 1

\* C6: encode of a string with a letter that is not in the training string
\* raises KeyError, returns no bits, and leaves the table as it was built,
\* with no entry for that letter.
C6_UnknownSymbol ==
    (Encoded /\ \E i \in 1..Len(call.arg) : call.arg[i] \notin Alphabet) =>
        /\ ret = Raise("KeyError")
        /\ DOMAIN table = Alphabet
        /\ table = BuildEncodingTable(tree, <<>>, EmptyTable).table
C6_Witness ==
    /\ Encoded
    /\ Len(call.arg) = 2
    /\ call.arg[1] \in Alphabet
    /\ call.arg[2] \notin Alphabet
    /\ ret.kind = "raise"

\* C7: the table has one entry per distinct training letter, each entry is
\* the path from the root to that letter's leaf, and no codeword is a prefix
\* of another letter's codeword.
C7_PrefixFree ==
    Constructed =>
        /\ DOMAIN table = Alphabet
        /\ \A s \in DOMAIN table :
              /\ IsLeaf(Follow(tree, table[s]))
              /\ Follow(tree, table[s]).letter = s
        /\ \A s, t \in DOMAIN table : s # t => ~IsPrefix(table[s], table[t])
C7_Witness == pc = "ready" /\ Cardinality(DOMAIN table) = 4

\* C8: in the tree of a non-empty x every leaf counts its letter's
\* occurrences, every inner node's count is the sum of its children's, the
\* root's count is len(x), and there are k leaves, one per distinct letter,
\* and k - 1 inner nodes.
C8_FrequencyConservation ==
    Constructed =>
        /\ Counted(tree, x)
        /\ tree.count = Len(x)
        /\ Len(LeafLetters(tree)) = Cardinality(Alphabet)
        /\ LetterSet(LeafLetters(tree)) = Alphabet
        /\ InternalNodes(tree) = Cardinality(Alphabet) - 1
C8_Witness == pc = "ready" /\ InternalNodes(tree) >= 3 /\ tree.count = 8

\* C10: after every merge the first tree removed counts no more than the
\* second, the second no more than any tree in the collection, and the
\* collection holds the new node with the first as left and the second as
\* right child; k - 1 merges are made in all; 'aabacabaaa' merges c and b
\* first and ends with the codewords c = 00, b = 01, a = 1.
C10_MergeStep ==
    /\ (pc = "loop" /\ merges > 0) =>
          /\ left.count <= right.count
          /\ \A i \in 1..Len(heap) : right.count <= heap[i].count
          /\ \E i \in 1..Len(heap) :
                heap[i] = Node(left.count + right.count, left, right)
    /\ (pc \in {"tree", "ready", "decoding"}) => merges = Cardinality(Alphabet) - 1
    /\ (x = Example /\ merges = 1) => (left = Leaf("c", 1) /\ right = Leaf("b", 2))
    /\ (x = Example /\ Constructed) =>
          /\ tree = Node(10, Node(3, Leaf("c", 1), Leaf("b", 2)), Leaf("a", 7))
          /\ table = ("c" :> <<"0", "0">>) @@ ("b" :> <<"0", "1">>) @@ ("a" :> <<"1">>)
C10_Witness == x = Example /\ pc = "ready" /\ merges = 2

\* C9: whatever the interleaving of two constructions, each ends with the
\* table that build_encoding_table gives for its tree when run alone.
C9_Independent ==
    \A p \in Procs :
        cpc[p] = "done" =>
            ctable[p] = BuildEncodingTable(ctree[p], <<>>, EmptyTable).table

====
